---------------------------- MODULE Spec2Model ----------------------------
(***************************************************************************)
(* The two development HTTP servers of STAC Explorer:                      *)
(*   serve.py   - stock file handler + MIME overrides, CORS, cache policy  *)
(*   server.py  - the SPA router: URL rewriting in front of the stock      *)
(*                file handler, CORS                                       *)
(* Both subclass http.server.SimpleHTTPRequestHandler; the parts of the    *)
(* stock handler that the two scripts reach through super() are modelled   *)
(* next to the code that calls them.                                       *)
(*                                                                         *)
(* Python strings are sequences of one-character strings, so that          *)
(* lstrip, startswith, endswith, suffix, lower, unquote and split are      *)
(* computed the way the code computes them.                                *)
(***************************************************************************)
EXTENDS Integers, Sequences, FiniteSets, TLC

(***************************************************************************)
(* Bounds of the model                                                     *)
(***************************************************************************)
\* request paths have at most this many segments
MaxSegments == 2
\* number of ports a user may pass with --port, counted from the default
NumPorts == 1

(***************************************************************************)
(* String literals                                                         *)
(***************************************************************************)
ext_js == <<".", "j", "s">>   \* ".js"
ext_mjs == <<".", "m", "j", "s">>   \* ".mjs"
ext_json == <<".", "j", "s", "o", "n">>   \* ".json"
ext_css == <<".", "c", "s", "s">>   \* ".css"
ext_html == <<".", "h", "t", "m", "l">>   \* ".html"
ext_htm == <<".", "h", "t", "m">>   \* ".htm"
ext_png == <<".", "p", "n", "g">>   \* ".png"
ext_jpg == <<".", "j", "p", "g">>   \* ".jpg"
ext_jpeg == <<".", "j", "p", "e", "g">>   \* ".jpeg"
ext_gif == <<".", "g", "i", "f">>   \* ".gif"
ext_svg == <<".", "s", "v", "g">>   \* ".svg"
ext_ico == <<".", "i", "c", "o">>   \* ".ico"
ext_woff == <<".", "w", "o", "f", "f">>   \* ".woff"
ext_woff2 == <<".", "w", "o", "f", "f", "2">>   \* ".woff2"
ext_ttf == <<".", "t", "t", "f">>   \* ".ttf"
ext_eot == <<".", "e", "o", "t">>   \* ".eot"
ext_map == <<".", "m", "a", "p">>   \* ".map"
ext_txt == <<".", "t", "x", "t">>   \* ".txt"
ext_gz == <<".", "g", "z">>   \* ".gz"
ext_Z == <<".", "Z">>   \* ".Z"
ext_bz2 == <<".", "b", "z", "2">>   \* ".bz2"
ext_xz == <<".", "x", "z">>   \* ".xz"
s_view == <<"v", "i", "e", "w">>   \* "view"
s_browser == <<"b", "r", "o", "w", "s", "e", "r">>   \* "browser"
s_catalog == <<"c", "a", "t", "a", "l", "o", "g">>   \* "catalog"
s_index_html == <<"i", "n", "d", "e", "x", ".", "h", "t", "m", "l">>   \* "index.html"
s_index_htm == <<"i", "n", "d", "e", "x", ".", "h", "t", "m">>   \* "index.htm"
s_slash_index_html == <<"/", "i", "n", "d", "e", "x", ".", "h", "t", "m", "l">>   \* "/index.html"
s_unknown == <<"u", "n", "k", "n", "o", "w", "n">>   \* "unknown"
s_GET == <<"G", "E", "T">>   \* "GET"
s_HEAD == <<"H", "E", "A", "D">>   \* "HEAD"
s_OPTIONS == <<"O", "P", "T", "I", "O", "N", "S">>   \* "OPTIONS"
s_POST == <<"P", "O", "S", "T">>   \* "POST"
s_http_version == <<" ", "H", "T", "T", "P", "/", "1", ".", "1">>   \* " HTTP/1.1"
s_file_not_found == <<"F", "i", "l", "e", " ", "n", "o", "t", " ", "f", "o", "u", "n", "d">>   \* "File not found"
s_dash == <<"-">>   \* "-"
p_root == <<"/">>   \* "/"
p_index == <<"/", "i", "n", "d", "e", "x", ".", "h", "t", "m", "l">>   \* "/index.html"
p_main_js == <<"/", "m", "a", "i", "n", ".", "j", "s">>   \* "/main.js"
p_main_js_q == <<"/", "m", "a", "i", "n", ".", "j", "s", "?", "v", "=", "2">>   \* "/main.js?v=2"
p_styles_css == <<"/", "s", "t", "y", "l", "e", "s", ".", "c", "s", "s">>   \* "/styles.css"
p_view_mod_mjs == <<"/", "v", "i", "e", "w", "/", "m", "o", "d", ".", "m", "j", "s">>   \* "/view/mod.mjs"
p_mod_mjs == <<"/", "m", "o", "d", ".", "m", "j", "s">>   \* "/mod.mjs"
p_font_woff == <<"/", "f", "o", "n", "t", ".", "w", "o", "f", "f">>   \* "/font.woff"
p_nothing == <<"/", "n", "o", "t", "h", "i", "n", "g">>   \* "/nothing"
p_viewer == <<"/", "v", "i", "e", "w", "e", "r">>   \* "/viewer"
p_view == <<"/", "v", "i", "e", "w">>   \* "/view"
p_view_search == <<"/", "v", "i", "e", "w", "/", "s", "e", "a", "r", "c", "h">>   \* "/view/search"
p_browser_c == <<"/", "b", "r", "o", "w", "s", "e", "r", "/", "c">>   \* "/browser/c"
p_catalog_c == <<"/", "c", "a", "t", "a", "l", "o", "g", "/", "c">>   \* "/catalog/c"
p_view_main_js == <<"/", "v", "i", "e", "w", "/", "m", "a", "i", "n", ".", "j", "s">>   \* "/view/main.js"
p_MAIN_JS == <<"/", "M", "A", "I", "N", ".", "J", "S">>   \* "/MAIN.JS"
p_main_pct_js == <<"/", "m", "a", "i", "n", "%", "2", "E", "j", "s">>   \* "/main%2Ejs"
p_pct_view_x == <<"/", "%", "7", "6", "i", "e", "w", "/", "x">>   \* "/%76iew/x"
p_view_coll == <<"/", "v", "i", "e", "w", "/", "c", "o", "l", "l", "e", "c", "t", "i", "o", "n", "/", "s", "2">>   \* "/view/collection/s2"
f_main_js == <<"m", "a", "i", "n", ".", "j", "s">>   \* "main.js"
f_mod_mjs == <<"m", "o", "d", ".", "m", "j", "s">>   \* "mod.mjs"
f_font_woff == <<"f", "o", "n", "t", ".", "w", "o", "f", "f">>   \* "font.woff"
s_unsupported == <<"U", "n", "s", "u", "p", "p", "o", "r", "t", "e", "d", " ", "m", "e", "t", "h", "o", "d", " ", "(", "'">>   \* "Unsupported method ('"
s_quote_paren == <<"'", ")">>   \* "')"
p_notes_txt == <<"/", "n", "o", "t", "e", "s", ".", "t", "x", "t">>   \* "/notes.txt"
p_docs == <<"/", "d", "o", "c", "s">>   \* "/docs"
p_docs_slash == <<"/", "d", "o", "c", "s", "/">>   \* "/docs/"
p_docs_about == <<"/", "d", "o", "c", "s", "/", "a", "b", "o", "u", "t">>   \* "/docs/about"
p_view_x == <<"/", "v", "i", "e", "w", "/", "x">>   \* "/view/x"
p_browserconfig_xml == <<"/", "b", "r", "o", "w", "s", "e", "r", "c", "o", "n", "f", "i", "g", ".", "x", "m", "l">>   \* "/browserconfig.xml"
s_docs == <<"d", "o", "c", "s">>   \* "docs"
f_about == <<"a", "b", "o", "u", "t">>   \* "about"

(***************************************************************************)
(* Python str operations                                                   *)
(***************************************************************************)
\* s.startswith(p)
startswith(s, p) ==
    Len(p) <= Len(s) /\ SubSeq(s, 1, Len(p)) = p

\* s.endswith(p)
endswith(s, p) ==
    Len(p) <= Len(s) /\ SubSeq(s, Len(s) - Len(p) + 1, Len(s)) = p

\* s.find(c), 1-based; 0 when c does not occur
find(s, c) ==
    IF \E i \in 1..Len(s) : s[i] = c
    THEN CHOOSE i \in 1..Len(s) : s[i] = c /\ \A j \in 1..(i - 1) : s[j] # c
    ELSE 0

\* s.rfind(c), 1-based; 0 when c does not occur
rfind(s, c) ==
    IF \E i \in 1..Len(s) : s[i] = c
    THEN CHOOSE i \in 1..Len(s) : s[i] = c /\ \A j \in (i + 1)..Len(s) : s[j] # c
    ELSE 0

\* s.split(c, 1)[0]
before(s, c) ==
    LET i == find(s, c)
    IN  IF i = 0 THEN s ELSE SubSeq(s, 1, i - 1)

\* s.lstrip(c)
lstrip(s, c) ==
    IF \A i \in 1..Len(s) : s[i] = c
    THEN <<>>
    ELSE SubSeq(s, CHOOSE i \in 1..Len(s) : s[i] # c /\ \A j \in 1..(i - 1) : s[j] = c, Len(s))

UpperCase == {"A", "I", "J", "M", "N", "S"}

LowerOf ==
    [c \in UpperCase |->
        CASE c = "A" -> "a" [] c = "I" -> "i" [] c = "J" -> "j"
          [] c = "M" -> "m" [] c = "N" -> "n" [] c = "S" -> "s"]

\* s.lower()
lower(s) ==
    [i \in 1..Len(s) |-> IF s[i] \in UpperCase THEN LowerOf[s[i]] ELSE s[i]]

\* s.split(c): the pieces between occurrences of c
RECURSIVE split(_, _)
split(s, c) ==
    LET i == find(s, c)
    IN  IF i = 0 THEN <<s>>
        ELSE <<SubSeq(s, 1, i - 1)>> \o split(SubSeq(s, i + 1, Len(s)), c)

\* [w for w in words if keep(w)]
RECURSIVE FilterWords(_, _)
FilterWords(words, drop) ==
    IF words = <<>> THEN <<>>
    ELSE IF words[1] \in drop THEN FilterWords(Tail(words), drop)
    ELSE <<words[1]>> \o FilterWords(Tail(words), drop)

\* the %XX escapes that occur in the modelled requests
HexPairs == {<<"2", "E">>, <<"7", "6">>, <<"2", "F">>}

HexDecode ==
    [h \in HexPairs |->
        CASE h = <<"2", "E">> -> "." [] h = <<"7", "6">> -> "v" [] h = <<"2", "F">> -> "/"]

\* urllib.parse.unquote(s)
RECURSIVE unquote(_)
unquote(s) ==
    IF s = <<>> THEN <<>>
    ELSE IF s[1] = "%" /\ Len(s) >= 3 /\ <<s[2], s[3]>> \in HexPairs
         THEN <<HexDecode[<<s[2], s[3]>>]>> \o unquote(SubSeq(s, 4, Len(s)))
         ELSE <<s[1]>> \o unquote(Tail(s))

Digit == [d \in 0..9 |-> CASE d = 0 -> "0" [] d = 1 -> "1" [] d = 2 -> "2" [] d = 3 -> "3"
                           [] d = 4 -> "4" [] d = 5 -> "5" [] d = 6 -> "6" [] d = 7 -> "7"
                           [] d = 8 -> "8" [] d = 9 -> "9"]

\* str(n) for a non-negative integer
RECURSIVE str(_)
str(n) ==
    IF n < 10 THEN <<Digit[n]>> ELSE str(n \div 10) \o <<Digit[n % 10]>>

(***************************************************************************)
(* urllib.parse and pathlib, as used by the handlers                       *)
(***************************************************************************)
\* urllib.parse.urlsplit(url).path for an origin-form request target:
\* the fragment and the query are cut off
urlsplit_path(url) ==
    before(before(url, "#"), "?")

\* urllib.parse.urlparse(url).path: urlsplit, then ;params of the last
\* segment are cut off
urlparse_path(url) ==
    LET p == urlsplit_path(url)
        lastSlash == rfind(p, "/")
        semi == find(SubSeq(p, lastSlash + 1, Len(p)), ";")
    IN  IF semi = 0 THEN p ELSE SubSeq(p, 1, lastSlash + semi - 1)

\* pathlib.Path(s).parts for a relative s: empty and "." segments vanish
PathParts(s) ==
    FilterWords(split(s, "/"), {<<>>, <<".">>})

\* pathlib.Path.name
PathName(parts) ==
    IF parts = <<>> THEN <<>> ELSE parts[Len(parts)]

\* pathlib.Path.suffix
PathSuffix(parts) ==
    LET name == PathName(parts)
        i == rfind(name, ".")
    IN  IF 1 < i /\ i < Len(name) THEN SubSeq(name, i, Len(name)) ELSE <<>>

\* posixpath.splitext(name)[1]
splitext(name) ==
    LET i == rfind(name, ".")
    IN  IF i > 0 /\ (\E j \in 1..(i - 1) : name[j] # ".")
        THEN SubSeq(name, i, Len(name)) ELSE <<>>

\* posixpath.normpath on the list of components of an absolute path
RECURSIVE normcomps(_, _)
normcomps(comps, acc) ==
    IF comps = <<>> THEN acc
    ELSE IF comps[1] \in {<<>>, <<".">>} THEN normcomps(Tail(comps), acc)
    ELSE IF comps[1] # <<".", ".">> THEN normcomps(Tail(comps), Append(acc, comps[1]))
    ELSE IF acc # <<>> THEN normcomps(Tail(comps), SubSeq(acc, 1, Len(acc) - 1))
    ELSE normcomps(Tail(comps), acc)

(***************************************************************************)
(* The filesystem under the Served Root                                    *)
(***************************************************************************)
\* a file is named by the list of its path components; its content is
\* identified with its name
FileUniverse ==
    { <<s_index_html>>, <<f_main_js>>, <<s_view, f_mod_mjs>>, <<f_font_woff>>,
      <<s_docs, f_about>> }

\* the files whose permission bits somebody may change
Lockable ==
    { <<s_index_html>>, <<f_main_js>> }

\* os.path.isfile
isfile(files, parts) ==
    parts \in files

\* os.path.isdir: the root, or a directory that holds a file
isdir(files, parts) ==
    \/ parts = <<>>
    \/ \E f \in files : Len(f) > Len(parts) /\ SubSeq(f, 1, Len(parts)) = parts

\* pathlib.Path.exists(), relative to the working directory
PathExists(files, parts) ==
    isfile(files, parts) \/ isdir(files, parts)

(***************************************************************************)
(* MIME tables                                                             *)
(***************************************************************************)
Platforms == {"linux", "darwin"}

\* mimetypes.types_map of CPython, restricted to the modelled extensions
StockTypes ==
    [e \in {ext_js, ext_mjs, ext_css, ext_json, ext_svg, ext_woff, ext_woff2,
            ext_html, ext_png, ext_jpg, ext_jpeg, ext_gif, ext_ico, ext_ttf,
            ext_eot, ext_txt} |->
        CASE e = ext_js    -> "text/javascript"
          [] e = ext_mjs   -> "text/javascript"
          [] e = ext_css   -> "text/css"
          [] e = ext_json  -> "application/json"
          [] e = ext_svg   -> "image/svg+xml"
          [] e = ext_woff  -> "font/woff"
          [] e = ext_woff2 -> "font/woff2"
          [] e = ext_html  -> "text/html"
          [] e = ext_png   -> "image/png"
          [] e = ext_jpg   -> "image/jpeg"
          [] e = ext_jpeg  -> "image/jpeg"
          [] e = ext_gif   -> "image/gif"
          [] e = ext_ico   -> "image/vnd.microsoft.icon"
          [] e = ext_ttf   -> "font/ttf"
          [] e = ext_eot   -> "application/vnd.ms-fontobject"
          [] e = ext_txt   -> "text/plain"]

\* dict.update: the entries of b override those of a
update(a, b) ==
    [e \in DOMAIN a \cup DOMAIN b |-> IF e \in DOMAIN b THEN b[e] ELSE a[e]]

\* what the platform's own type registry adds on top of CPython's table
\* when mimetypes initialises (the mime.types files it finds)
PlatformOverrides(platform) ==
    CASE platform = "linux" ->
           [e \in {ext_js, ext_woff} |->
               IF e = ext_js THEN "application/javascript" ELSE "application/font-woff"]
      [] OTHER -> [e \in {} |-> "text/plain"]

\* the process-wide mimetypes table right after interpreter start
PlatformTypes(platform) ==
    update(StockTypes, PlatformOverrides(platform))

\* SimpleHTTPRequestHandler.extensions_map as the class defines it
encodings_map_default ==
    [e \in {ext_gz, ext_Z, ext_bz2, ext_xz} |->
        CASE e = ext_gz  -> "application/gzip"
          [] e = ext_Z   -> "application/octet-stream"
          [] e = ext_bz2 -> "application/x-bzip2"
          [] e = ext_xz  -> "application/x-xz"]

\* mimetypes.guess_type(path)[0], given posixpath.splitext(path)[1];
\* "" stands for None
mimetypes_guess_type(db, ext) ==
    IF lower(ext) \in DOMAIN db THEN db[lower(ext)] ELSE ""

\* SimpleHTTPRequestHandler.guess_type(path), given
\* posixpath.splitext(path)[1]
guess_type(em, db, ext) ==
    IF ext \in DOMAIN em THEN em[ext]
    ELSE IF lower(ext) \in DOMAIN em THEN em[lower(ext)]
    ELSE LET guess == mimetypes_guess_type(db, ext)
         IN  IF guess # "" THEN guess ELSE "application/octet-stream"

\* serve.py __init__: the seven mimetypes.add_type calls
serve_add_types(db) ==
    update(db,
        [e \in {ext_js, ext_mjs, ext_css, ext_json, ext_svg, ext_woff2, ext_woff} |->
            CASE e = ext_js    -> "application/javascript"
              [] e = ext_mjs   -> "application/javascript"
              [] e = ext_css   -> "text/css"
              [] e = ext_json  -> "application/json"
              [] e = ext_svg   -> "image/svg+xml"
              [] e = ext_woff2 -> "font/woff2"
              [] e = ext_woff  -> "font/woff"])

\* server.py __init__: self.extensions_map.update({...}) on the class dict
server_update_extensions_map(em) ==
    update(em,
        [e \in {ext_js, ext_mjs, ext_json, ext_css, ext_html} |->
            CASE e = ext_js   -> "application/javascript"
              [] e = ext_mjs  -> "application/javascript"
              [] e = ext_json -> "application/json"
              [] e = ext_css  -> "text/css"
              [] e = ext_html -> "text/html"])

(***************************************************************************)
(* Request targets                                                         *)
(***************************************************************************)
AllPaths ==
    { p_root, p_index, p_main_js, p_main_js_q, p_styles_css, p_view_mod_mjs,
      p_mod_mjs, p_font_woff, p_nothing, p_notes_txt, p_viewer, p_view,
      p_view_search, p_browser_c, p_catalog_c, p_view_main_js, p_MAIN_JS,
      p_main_pct_js, p_pct_view_x, p_view_coll, p_docs, p_docs_slash,
      p_docs_about, p_view_x, p_browserconfig_xml }

\* number of segments of a request path
Segments(p) ==
    Len(FilterWords(split(urlsplit_path(p), "/"), {<<>>}))

Paths ==
    {p \in AllPaths : Segments(p) <= MaxSegments}

\* every value self.path takes: the request targets and the rewritten one
Targets ==
    Paths \cup {s_slash_index_html}

(***************************************************************************)
(* Requests and responses                                                  *)
(***************************************************************************)
CommandChars(command) ==
    CASE command = "GET" -> s_GET [] command = "HEAD" -> s_HEAD
      [] command = "OPTIONS" -> s_OPTIONS [] command = "POST" -> s_POST

\* self.requestline
requestline(r) ==
    CommandChars(r.command) \o <<" ">> \o r.path \o s_http_version

\* bodies: nothing, the content of a file, an error page, a directory listing
NoBody == [kind |-> "empty", of |-> <<>>]

FileBody(parts) == [kind |-> "file", of |-> parts]

\* str(code) for the status codes the handlers send
StatusStr == [code \in {100, 200, 301, 304, 400, 404, 500, 501} |-> str(code)]

ErrorBody(code) == [kind |-> "error", of |-> <<StatusStr[code]>>]

ListingBody(parts) == [kind |-> "listing", of |-> parts]

\* the exchange before the handler has written anything
\* status and headers, the body the handler wrote itself, the file send_head
\* opened, whether it was copied to the client, and the log lines
NoResponse ==
    [status |-> 0, headers |-> <<>>, body |-> NoBody, f |-> NoBody,
     copied |-> FALSE, log |-> <<>>]

\* what the client received after the headers
wfile(x) ==
    IF x.copied /\ x.f # NoBody THEN x.f ELSE x.body

\* the headers named k of an exchange
HeaderValues(x, k) ==
    {x.headers[i][2] : i \in {j \in 1..Len(x.headers) : x.headers[j][1] = k}}

\* how many headers named k an exchange carries
HeaderCount(x, k) ==
    Cardinality({j \in 1..Len(x.headers) : x.headers[j][1] = k})

(***************************************************************************)
(* Logging                                                                 *)
(***************************************************************************)
\* serve.py log_message: the tag is derived from args[1]
serve_log_message(format, args) ==
    LET path == IF Len(args) > 1 THEN args[2] ELSE s_unknown
        file_type ==
            IF endswith(path, ext_js) THEN "[JS]"
            ELSE IF endswith(path, ext_css) THEN "[CSS]"
            ELSE IF \E e \in {ext_png, ext_jpg, ext_svg} : endswith(path, e) THEN "[IMG]"
            ELSE "[HTML]"
    IN  [tag |-> file_type, format |-> format, args |-> args]

\* server.py log_message: "[<time>] <message>"
server_log_message(format, args) ==
    [tag |-> "[time]", format |-> format, args |-> args]

log_message(cls, format, args) ==
    IF cls = "serve.py" THEN serve_log_message(format, args)
    ELSE server_log_message(format, args)

\* BaseHTTPRequestHandler.log_request(code)
log_request(cls, r, x, code) ==
    [x EXCEPT !.log = Append(@, log_message(cls, "\"%s\" %s %s", <<requestline(r), StatusStr[code], s_dash>>))]

\* BaseHTTPRequestHandler.log_error(format, *args) as send_error calls it
log_error(cls, x, code, message) ==
    [x EXCEPT !.log = Append(@, log_message(cls, "code %d, message %s", <<StatusStr[code], message>>))]

(***************************************************************************)
(* Writing a response                                                      *)
(***************************************************************************)
\* BaseHTTPRequestHandler.send_header
send_header(x, keyword, value) ==
    [x EXCEPT !.headers = Append(@, <<keyword, value>>)]

\* BaseHTTPRequestHandler.send_response: log, status line, Server and Date
send_response(cls, r, x, code) ==
    send_header(send_header([log_request(cls, r, x, code) EXCEPT !.status = code],
                            "Server", "SimpleHTTP"), "Date", "now")

\* the condition of serve.py end_headers:
\* self.path.endswith(('.js', '.css', '.png', '.jpg', '.svg', '.woff', '.woff2'))
cacheable(path) ==
    \E e \in {ext_js, ext_css, ext_png, ext_jpg, ext_svg, ext_woff, ext_woff2} :
        endswith(path, e)

\* cacheable, tabulated over the values of self.path
Cacheable == [p \in Targets |-> cacheable(p)]

\* serve.py end_headers; path is self.path
serve_end_headers(path, x) ==
    LET cors == send_header(send_header(send_header(x,
                    "Access-Control-Allow-Origin", "*"),
                    "Access-Control-Allow-Methods", "GET, POST, OPTIONS"),
                    "Access-Control-Allow-Headers", "Content-Type")
    IN  IF Cacheable[path]
        THEN send_header(cors, "Cache-Control", "public, max-age=3600")
        ELSE send_header(cors, "Cache-Control", "no-cache")

\* server.py end_headers
\* an end_headers that leaves out Access-Control-Allow-Headers
server_end_headers_short(x) ==
    send_header(send_header(x,
        "Access-Control-Allow-Origin", "*"),
        "Access-Control-Allow-Methods", "GET, POST, OPTIONS")

\* server.py end_headers
server_end_headers(x) ==
    send_header(send_header(send_header(x,
        "Access-Control-Allow-Origin", "*"),
        "Access-Control-Allow-Methods", "GET, POST, OPTIONS"),
        "Access-Control-Allow-Headers", "Content-Type")

\* self.end_headers(), resolved on the class of the handler
end_headers(cls, path, x) ==
    IF cls = "serve.py" THEN serve_end_headers(path, x)
    ELSE IF cls = "server.py" THEN server_end_headers(x)
    ELSE x   \* the stock class adds no header

\* BaseHTTPRequestHandler.send_error(code, message)
send_error(cls, r, path, x, code, message) ==
    LET logged == log_error(cls, x, code, message)
        started == send_header(send_response(cls, r, logged, code), "Connection", "close")
        hasBody == code >= 200 /\ code \notin {204, 205, 304}
        typed == IF hasBody
                 THEN send_header(send_header(started,
                          "Content-Type", "text/html;charset=utf-8"),
                          "Content-Length", "len")
                 ELSE started
        ended == end_headers(cls, path, typed)
    IN  IF r.command # "HEAD" /\ hasBody
        THEN [ended EXCEPT !.body = ErrorBody(code)]
        ELSE ended

(***************************************************************************)
(* The stock file handler (http.server.SimpleHTTPRequestHandler)           *)
(***************************************************************************)
\* translate_path(path): the components under self.directory and whether
\* the result keeps a trailing slash
translate_path(path) ==
    LET cut == before(before(path, "?"), "#")
        words == FilterWords(normcomps(split(unquote(cut), "/"), <<>>),
                             {<<>>, <<".">>, <<".", ".">>})
    IN  [parts |-> words, trailing_slash |-> endswith(cut, <<"/">>)]

\* what send_head derives from self.path alone: the translated path, the
\* extension guess_type looks at (of the path and of the index files it
\* may turn to), and whether the URL path ends with a slash
Translated ==
    [p \in Targets |->
        LET t == translate_path(p)
        IN  [parts |-> t.parts,
             trailing_slash |-> t.trailing_slash,
             ext |-> splitext(PathName(t.parts)),
             url_is_dir |-> endswith(urlsplit_path(p), <<"/">>)]]

\* list_directory(path): the generated listing page
list_directory(cls, r, path, x, parts) ==
    LET started == send_header(send_header(send_response(cls, r, x, 200),
                       "Content-type", "text/html; charset=utf-8"),
                       "Content-Length", "len")
    IN  [end_headers(cls, path, started) EXCEPT !.f = ListingBody(parts)]

\* the part of send_head that runs once the file to send is known
send_file(cls, r, path, files, denied, em, db, x, parts, ext, trailing_slash) ==
    LET ctype == guess_type(em, db, ext)
    IN  IF trailing_slash \/ ~isfile(files, parts) \/ parts \in denied
        THEN \* a trailing slash, or open() raised OSError
             send_error(cls, r, path, x, 404, s_file_not_found)
        ELSE IF r.ims
        THEN end_headers(cls, path, send_response(cls, r, x, 304))
        ELSE [end_headers(cls, path,
                 send_header(send_header(send_header(send_response(cls, r, x, 200),
                     "Content-type", ctype),
                     "Content-Length", "len"),
                     "Last-Modified", "mtime"))
              EXCEPT !.f = FileBody(parts)]

\* send_head(); path is self.path
send_head(cls, r, path, files, denied, em, db, x) ==
    LET t == Translated[path]
    IN  IF isdir(files, t.parts)
        THEN IF ~t.url_is_dir
             THEN end_headers(cls, path,
                      send_header(send_header(send_response(cls, r, x, 301),
                          "Location", "path/"),
                          "Content-Length", "0"))
             ELSE IF isfile(files, Append(t.parts, s_index_html))
             THEN send_file(cls, r, path, files, denied, em, db, x,
                            Append(t.parts, s_index_html), ext_html, FALSE)
             ELSE IF isfile(files, Append(t.parts, s_index_htm))
             THEN send_file(cls, r, path, files, denied, em, db, x,
                            Append(t.parts, s_index_htm), ext_htm, FALSE)
             ELSE list_directory(cls, r, path, x, t.parts)
        ELSE send_file(cls, r, path, files, denied, em, db, x, t.parts, t.ext, t.trailing_slash)

\* SimpleHTTPRequestHandler.do_GET: send_head, then copy the file it returned
simple_do_GET(cls, r, path, files, denied, em, db, x) ==
    [send_head(cls, r, path, files, denied, em, db, x) EXCEPT !.copied = TRUE]

\* SimpleHTTPRequestHandler.do_HEAD: send_head, then close the file
simple_do_HEAD(cls, r, path, files, denied, em, db, x) ==
    send_head(cls, r, path, files, denied, em, db, x)

(***************************************************************************)
(* serve.py                                                                *)
(***************************************************************************)
\* serve.py do_OPTIONS
serve_do_OPTIONS(r, x) ==
    end_headers("serve.py", r.path, send_response("serve.py", r, x, 200))

(***************************************************************************)
(* server.py: the SPA router                                               *)
(***************************************************************************)
static_extensions ==
    {ext_html, ext_css, ext_js, ext_json, ext_png, ext_jpg, ext_jpeg,
     ext_gif, ext_svg, ext_ico, ext_woff, ext_woff2, ext_ttf, ext_eot, ext_map}

\* a route list that also claims docs
spa_routes_docs ==
    <<s_view, s_browser, s_catalog, s_docs>>

\* a route list without view
spa_routes_short ==
    <<s_browser, s_catalog>>

spa_routes ==
    <<s_view, s_browser, s_catalog>>

\* clean_path of do_GET
clean_path(path) ==
    lstrip(urlparse_path(path), "/")

\* file_path of do_GET: pathlib.Path(clean_path)
file_path(clean) ==
    PathParts(clean)

\* a has_extension that takes every suffix for a static one
has_extension_any(fp) ==
    PathSuffix(fp) # <<>>

\* has_extension of do_GET
has_extension(fp) ==
    lower(PathSuffix(fp)) \in static_extensions

\* file_exists of do_GET
file_exists(files, fp) ==
    PathExists(files, fp)

\* is_spa_route with the routes compared for equality
is_spa_route_exact(clean) ==
    \/ clean = <<>>
    \/ clean = s_index_html
    \/ \E i \in 1..Len(spa_routes) : clean = spa_routes[i]

\* is_spa_route of do_GET
is_spa_route(clean) ==
    \/ clean = <<>>
    \/ clean = s_index_html
    \/ \E i \in 1..Len(spa_routes) : startswith(clean, spa_routes[i])

\* what do_GET derives from self.path alone
Routed ==
    [p \in Paths |->
        [file_path |-> file_path(clean_path(p)),
         has_extension |-> has_extension(file_path(clean_path(p))),
         is_spa_route |-> is_spa_route(clean_path(p))]]

\* a do_GET that forwards every path as it came
server_rewrite_none(files, path) ==
    path

\* the value of self.path when server.py do_GET calls super().do_GET()
server_rewrite(files, path) ==
    LET rt == Routed[path]
        exists == file_exists(files, rt.file_path)
    IN  IF rt.has_extension /\ exists THEN path
        ELSE IF rt.has_extension /\ ~exists THEN path
        ELSE IF rt.is_spa_route THEN s_slash_index_html
        ELSE path

\* server.py do_GET
server_do_GET(r, checked, files, denied, em, db, x) ==
    simple_do_GET("server.py", r, server_rewrite(checked, r.path), files, denied, em, db, x)

(***************************************************************************)
(* Dispatch (BaseHTTPRequestHandler.handle_one_request)                    *)
(***************************************************************************)
\* the do_* methods each class has
Methods(cls) ==
    IF cls = "serve.py" THEN {"GET", "HEAD", "OPTIONS"} ELSE {"GET", "HEAD"}

\* one request handled by an instance of the class, after its __init__
\* checked holds the files Path(...).exists() of server.py sees, files those
\* under self.directory of the stock handler, denied those open() refuses
handle_one_request(cls, r, checked, files, denied, em, db) ==
    LET x == NoResponse
    IN  IF r.command \notin Methods(cls)
        THEN send_error(cls, r, r.path, x, 501,
                        s_unsupported \o CommandChars(r.command) \o s_quote_paren)
        ELSE IF r.command = "OPTIONS" THEN serve_do_OPTIONS(r, x)
        ELSE IF r.command = "HEAD" THEN simple_do_HEAD(cls, r, r.path, files, denied, em, db, x)
        ELSE IF cls = "server.py" THEN server_do_GET(r, checked, files, denied, em, db, x)
        ELSE simple_do_GET(cls, r, r.path, files, denied, em, db, x)

(***************************************************************************)
(* The handler's constructor                                               *)
(***************************************************************************)
\* serve.py __init__ calls mimetypes.add_type before super().__init__, which
\* handles the request: the request sees the table after the calls
serve_init_sees(old, new) ==
    new

\* a handler that answers before its table is updated
server_init_sees_old(old, new) ==
    old

\* server.py __init__ updates extensions_map before super().__init__, which
\* handles the request: the request sees the table after the update
server_init_sees(old, new) ==
    new

(***************************************************************************)
(* Inputs                                                                  *)
(***************************************************************************)
Scripts == {"serve.py", "server.py"}

DefaultPort == 8000

Ports == DefaultPort..(DefaultPort + NumPorts - 1)

\* errno of a bind on a port that is in use
EADDRINUSE(platform) ==
    CASE platform = "linux" -> 98 [] platform = "darwin" -> 48

EACCES == 13

\* the directory the script is launched in
LaunchDir == "."

\* the values of --directory: absent, or a directory other than LaunchDir
Directories == {"", "www"}

\* os.chdir(d) in working directory wd
chdir(wd, d) ==
    IF d = "." THEN wd ELSE d

\* serve.py run_server: os.chdir(directory), the default being "."
serve_chdir(wd, d) ==
    chdir(wd, IF d = "" THEN "." ELSE d)

\* server.py run_server: os.chdir(directory) if directory is given
server_chdir(wd, d) ==
    IF d # "" THEN chdir(wd, d) ELSE wd

\* the directory Path(clean_path).exists() of server.py resolves against
router_directory(wd) ==
    wd

\* a stock handler that keeps the directory of the launch
handler_directory_launch(wd) ==
    LaunchDir

\* self.directory of the stock handler: os.getcwd() when the handler is built
handler_directory(wd) ==
    wd

Requests ==
    [command : {"GET"}, path : Paths, ims : {FALSE}]
    \cup [command : {"GET"}, path : {p_root, p_main_js, p_styles_css}, ims : {TRUE}]
    \cup [command : {"HEAD"}, path : {p_root, p_main_js, p_view, p_view_search}, ims : {FALSE}]
    \cup [command : {"OPTIONS"}, path : {p_root, p_main_js, p_view_search}, ims : {FALSE}]
    \cup [command : {"POST"}, path : {p_root}, ims : {FALSE}]

NoRequest == [command |-> "none", path |-> <<>>, ims |-> FALSE]

(***************************************************************************)
(* State                                                                   *)
(***************************************************************************)
VARIABLES
    script,          \* which of the two launch modes runs
    platform,        \* the platform the process runs on
    pc,              \* "main", "serving" or "exited"
    exit_code,       \* exit status once pc = "exited"
    stdout,          \* what run_server printed
    port,            \* the --port argument
    directory,       \* the --directory argument, "" if absent
    cwd,             \* the working directory of the process
    files,           \* the files under the Served Root
    denied,          \* those of them open() refuses
    extensions_map,  \* SimpleHTTPRequestHandler.extensions_map (class attribute)
    mimedb,          \* the process-wide table of the mimetypes module
    oserror,         \* errno of the OSError the bind raised, 0 if none
    request,         \* the request handled last
    response,        \* its response and its log lines
    previous         \* the answer to the same request just before, if any

vars == <<script, platform, pc, exit_code, stdout, port, directory, cwd,
          files, denied,
          extensions_map, mimedb, oserror, request, response, previous>>

Said(kind, p) == [kind |-> kind, port |-> p]

Init ==
    /\ script \in Scripts
    /\ platform \in Platforms
    /\ pc = "main"
    /\ exit_code = 0
    /\ stdout = <<>>
    /\ port \in Ports
    /\ directory \in Directories
    /\ cwd = LaunchDir
    /\ files \in SUBSET FileUniverse
    /\ denied \in SUBSET (files \cap Lockable)
    /\ extensions_map = encodings_map_default
    /\ mimedb = PlatformTypes(platform)
    /\ oserror = 0
    /\ request = NoRequest
    /\ response = NoResponse
    /\ previous = NoResponse

(***************************************************************************)
(* Startup and shutdown                                                    *)
(***************************************************************************)
\* e.errno of the OSError a failed bind raises
bind_errno(plat, bind) ==
    CASE bind = "ok" -> 0
      [] bind = "in_use" -> EADDRINUSE(plat)
      [] bind = "denied" -> EACCES

\* the Served Root: the directory the configuration names at startup
ServedRoot ==
    IF directory = "" THEN LaunchDir ELSE directory

\* the files a path relative to directory d resolves against; the launch
\* directory, when it is not the Served Root, holds none of them
Tree(d) ==
    IF d = ServedRoot THEN files ELSE {}

\* serve.py run_server; bind is the outcome of TCPServer(("", port), ...)
serve_run_server(bind) ==
    /\ script = "serve.py" /\ pc = "main"
    /\ cwd' = serve_chdir(cwd, directory)
    /\ oserror' = bind_errno(platform, bind)
    /\ IF bind = "ok"
       THEN /\ pc' = "serving"
            /\ stdout' = Append(stdout, Said("banner", port))
            /\ exit_code' = exit_code
       ELSE \* the OSError propagates out of run_server: traceback, status 1
            /\ pc' = "exited"
            /\ stdout' = Append(stdout, Said("traceback", 0))
            /\ exit_code' = 1
    /\ UNCHANGED <<script, platform, port, directory, files, denied,
                   extensions_map, mimedb, request, response, previous>>

\* a run_server that prints no warning
server_warning_silent(fs) ==
    <<>>

\* the lines server.py run_server prints before it binds
server_warning(fs) ==
    IF ~isfile(fs, <<s_index_html>>) THEN <<Said("warning: index.html not found", 0)>> ELSE <<>>

\* the lines server.py run_server prints for an OSError with this errno
server_oserror(errno, p) ==
    IF errno = 48
    THEN <<Said("port is already in use", p), Said("try --port", p + 1)>>
    ELSE <<Said("error starting server", 0)>>

\* server.py run_server
server_run_server(bind) ==
    /\ script = "server.py" /\ pc = "main"
    /\ cwd' = server_chdir(cwd, directory)
    /\ IF bind = "ok"
       THEN /\ pc' = "serving"
            /\ stdout' = stdout \o server_warning(Tree(cwd')) \o <<Said("banner", port)>>
       ELSE \* except OSError: print and fall off the end of the script
            /\ pc' = "exited"
            /\ stdout' = stdout \o server_warning(Tree(cwd'))
                   \o server_oserror(bind_errno(platform, bind), port)
    /\ oserror' = bind_errno(platform, bind)
    /\ exit_code' = 0
    /\ UNCHANGED <<script, platform, port, directory, files, denied,
                   extensions_map, mimedb, request, response, previous>>

\* Ctrl+C while serving: both scripts print a line and end with status 0
KeyboardInterrupt ==
    /\ pc = "serving"
    /\ pc' = "exited"
    /\ exit_code' = 0
    /\ stdout' = Append(stdout, Said("server stopped", 0))
    /\ UNCHANGED <<script, platform, port, directory, cwd, files, denied,
                   extensions_map, mimedb, oserror, request, response, previous>>

(***************************************************************************)
(* Requests                                                                *)
(***************************************************************************)
\* a client connects and sends a request; the exchange before it is over
client_request(r) ==
    /\ pc = "serving"
    /\ request = NoRequest \/ response # NoResponse
    /\ request' = r
    /\ response' = NoResponse
    /\ previous' = IF r = request THEN response ELSE NoResponse
    /\ UNCHANGED <<script, platform, pc, exit_code, stdout, port, directory, cwd,
                   files, denied, extensions_map, mimedb, oserror>>

\* serve.py: the request is handled by a fresh STACExplorerHTTPRequestHandler
serve_handle ==
    /\ script = "serve.py" /\ pc = "serving"
    /\ request # NoRequest /\ response = NoResponse
    /\ extensions_map' = extensions_map
    /\ mimedb' = serve_add_types(mimedb)
    /\ response' = handle_one_request("serve.py", request,
                        Tree(router_directory(cwd)), Tree(handler_directory(cwd)), denied,
                        extensions_map', serve_init_sees(mimedb, mimedb'))
    /\ UNCHANGED <<script, platform, pc, exit_code, stdout, port, directory, cwd,
                   files, denied, oserror, request, previous>>

\* server.py: the request is handled by a fresh STACExplorerHTTPRequestHandler
server_handle ==
    /\ script = "server.py" /\ pc = "serving"
    /\ request # NoRequest /\ response = NoResponse
    /\ extensions_map' = server_update_extensions_map(extensions_map)
    /\ mimedb' = mimedb
    /\ response' = handle_one_request("server.py", request,
                        Tree(router_directory(cwd)), Tree(handler_directory(cwd)), denied,
                        server_init_sees(extensions_map, extensions_map'), mimedb')
    /\ UNCHANGED <<script, platform, pc, exit_code, stdout, port, directory, cwd,
                   files, denied, oserror, request, previous>>

\* somebody creates or deletes a file under the Served Root; an exchange
\* that was completed before is over, a request not yet handled stays
FsChange(f) ==
    /\ pc # "exited"
    /\ files' = IF f \in files THEN files \ {f} ELSE files \cup {f}
    /\ denied' = denied \ {f}
    /\ request' = IF response = NoResponse THEN request ELSE NoRequest
    /\ response' = NoResponse
    /\ previous' = NoResponse
    /\ UNCHANGED <<script, platform, pc, exit_code, stdout, port, directory, cwd,
                   extensions_map, mimedb, oserror>>

\* somebody takes away or gives back the permission to read a file
Chmod(f) ==
    /\ pc # "exited"
    /\ f \in files
    /\ denied' = IF f \in denied THEN denied \ {f} ELSE denied \cup {f}
    /\ request' = IF response = NoResponse THEN request ELSE NoRequest
    /\ response' = NoResponse
    /\ previous' = NoResponse
    /\ UNCHANGED <<script, platform, pc, exit_code, stdout, port, directory, cwd,
                   files, extensions_map, mimedb, oserror>>

Next ==
    \/ \E bind \in {"ok", "in_use", "denied"} : serve_run_server(bind)
    \/ \E bind \in {"ok", "in_use", "denied"} : server_run_server(bind)
    \/ KeyboardInterrupt
    \/ \E r \in Requests : client_request(r)
    \/ serve_handle
    \/ server_handle
    \/ \E f \in FileUniverse : FsChange(f)
    \/ \E f \in Lockable : Chmod(f)

Spec == Init /\ [][Next]_vars

TypeOK ==
    /\ script \in Scripts
    /\ pc \in {"main", "serving", "exited"}
    /\ request \in Requests \cup {NoRequest}
    /\ files \subseteq FileUniverse

(***************************************************************************)
(* The vocabulary of the specification (spec.md, sections 3 and 4.1)       *)
(***************************************************************************)
\* the static-asset set as the specification lists it
SpecStaticExtensions ==
    {ext_html, ext_css, ext_js, ext_mjs, ext_json, ext_png, ext_jpg, ext_jpeg,
     ext_gif, ext_svg, ext_ico, ext_woff, ext_woff2, ext_ttf, ext_eot, ext_map}

\* normalizedPath and extension of a request target: the percent-decoded
\* path without its leading separator, and the lower-cased suffix of its
\* final segment
SpecPath ==
    [p \in Paths |->
        LET normalized == lstrip(unquote(urlsplit_path(p)), "/")
        IN  [normalizedPath |-> normalized,
             extension |-> lower(PathSuffix(PathParts(normalized))),
             parts |-> PathParts(normalized)]]

\* the request path as do_GET of server.py looks at it: the URL path, not
\* decoded, without its leading slashes, and its lower-cased suffix
Stripped ==
    [p \in Paths |->
        LET stripped == lstrip(urlparse_path(p), "/")
        IN  [path |-> stripped, suffix |-> lower(PathSuffix(PathParts(stripped)))]]

\* the suffixes server.py serves as static files
CodeStaticExtensions ==
    SpecStaticExtensions \ {ext_mjs}

\* the client-route prefixes
ClientRoutes ==
    {s_view, s_browser, s_catalog}

\* the request handled last was a GET to the SPA router
RouterGET ==
    script = "server.py" /\ request.command = "GET" /\ response.status # 0

\* the response is the entry document
IsEntryDocument(x) ==
    x.status = 200 /\ wfile(x) = FileBody(<<s_index_html>>)

(***************************************************************************)
(* C1..C3: the routing contract                                            *)
(***************************************************************************)
\* C1: a GET to the SPA router for a path with a recognized static extension
\* (the specification's set, mjs included) and no file at ServedRoot/path is
\* answered 404 with the error page, never with the entry document, whatever
\* the prefix of the path.
C1_MissingAssetIsNotFound ==
    (/\ RouterGET
     /\ SpecPath[request.path].extension \in SpecStaticExtensions
     /\ ~isfile(files, SpecPath[request.path].parts))
    => (response.status = 404 /\ wfile(response).kind = "error")

\* C2: an unconditional GET to the SPA router for a path with an extension of
\* the static-asset set (mjs included) and a file at ServedRoot/path is
\* answered 200 with that file as the body, also under a client-route prefix.
C2_ExistingAssetIsServed ==
    (/\ RouterGET /\ ~request.ims
     /\ SpecPath[request.path].extension \in SpecStaticExtensions
     /\ isfile(files, SpecPath[request.path].parts))
    => (response.status = 200 /\ wfile(response) = FileBody(SpecPath[request.path].parts))

\* C3 as stated: an unconditional GET to the SPA router for a path without
\* extension, or whose normalized path starts with view, browser or catalog,
\* is answered 200 with the content of index.html when index.html exists.
C3_EntryDocumentForEveryRoute ==
    (/\ RouterGET /\ ~request.ims
     /\ isfile(files, <<s_index_html>>)
     /\ \/ SpecPath[request.path].extension = <<>>
        \/ \E route \in ClientRoutes :
               startswith(SpecPath[request.path].normalizedPath, route))
    => IsEntryDocument(response)

\* C3 amended: an unconditional GET to the SPA router whose slash-stripped
\* path has no suffix of the code's static set and is empty or starts with
\* view, browser or catalog is answered 200 with the content of index.html
\* when index.html exists and can be read.
C3_EntryDocumentForClientRoutes ==
    (/\ RouterGET /\ ~request.ims
     /\ isfile(files, <<s_index_html>>) /\ <<s_index_html>> \notin denied
     /\ Stripped[request.path].suffix \notin CodeStaticExtensions
     /\ \/ Stripped[request.path].path = <<>>
        \/ \E route \in ClientRoutes : startswith(Stripped[request.path].path, route))
    => IsEntryDocument(response)

\* a client route without extension was answered with the entry document
C3_Witness ==
    /\ RouterGET /\ ~request.ims
    /\ request.path = p_view_search
    /\ isfile(files, <<s_index_html>>)
    /\ IsEntryDocument(response)
(***************************************************************************)
(* C4..C7: the headers of a response                                       *)
(***************************************************************************)
\* the extension of the request target as the specification computes it
RequestExtension ==
    SpecPath[request.path].extension

\* the three CORS headers, each once and with its fixed value
HasCORS(x) ==
    /\ HeaderCount(x, "Access-Control-Allow-Origin") = 1
    /\ HeaderValues(x, "Access-Control-Allow-Origin") = {"*"}
    /\ HeaderCount(x, "Access-Control-Allow-Methods") = 1
    /\ HeaderValues(x, "Access-Control-Allow-Methods") = {"GET, POST, OPTIONS"}
    /\ HeaderCount(x, "Access-Control-Allow-Headers") = 1
    /\ HeaderValues(x, "Access-Control-Allow-Headers") = {"Content-Type"}

\* C4: every response of either server, whatever the method, the path and
\* the status, carries the three CORS headers Access-Control-Allow-Origin: *,
\* Access-Control-Allow-Methods: GET, POST, OPTIONS and
\* Access-Control-Allow-Headers: Content-Type.
C4_EveryResponseCarriesCORS ==
    response.status # 0 => HasCORS(response)

\* the SPA router refused a POST with 501 and the CORS headers
C4_Witness ==
    /\ script = "server.py" /\ request.command = "POST"
    /\ response.status = 501
    /\ HasCORS(response)

\* C5: an OPTIONS request to any path, on serve.py and on server.py, is
\* answered 200 with an empty body and the three CORS headers.
C5_OptionsIsBare200 ==
    (request.command = "OPTIONS" /\ response.status # 0)
    => (response.status = 200 /\ wfile(response) = NoBody /\ HasCORS(response))

\* the asset classes of the cache policy
CacheableExtensions ==
    {ext_js, ext_css, ext_png, ext_jpg, ext_svg, ext_woff, ext_woff2}

\* C6: every response of either server carries exactly one Cache-Control
\* header: public, max-age=3600 when the request is for a js, css, png, jpg,
\* svg, woff or woff2 asset (with or without a query string), no-cache
\* otherwise.
C6_OneCacheControlByAssetClass ==
    response.status # 0
    => /\ HeaderCount(response, "Cache-Control") = 1
       /\ HeaderValues(response, "Cache-Control") =
              {IF RequestExtension \in CacheableExtensions
               THEN "public, max-age=3600" ELSE "no-cache"}

\* the override table of the specification
OverrideTable ==
    [e \in {ext_js, ext_mjs, ext_css, ext_json, ext_svg, ext_woff, ext_woff2} |->
        CASE e = ext_js    -> "application/javascript"
          [] e = ext_mjs   -> "application/javascript"
          [] e = ext_css   -> "text/css"
          [] e = ext_json  -> "application/json"
          [] e = ext_svg   -> "image/svg+xml"
          [] e = ext_woff  -> "font/woff"
          [] e = ext_woff2 -> "font/woff2"]

\* the extension of the file a response carries
ServedExtension(x) ==
    lower(PathSuffix(wfile(x).of))

\* C7: on both servers the Content-Type of a successfully served file is the
\* entry of the override table when the extension of the file is in the
\* table, and the platform default otherwise.
C7_ContentTypeFromOverrideTable ==
    (response.status = 200 /\ wfile(response).kind = "file")
    => HeaderValues(response, "Content-type") =
          {IF ServedExtension(response) \in DOMAIN OverrideTable
           THEN OverrideTable[ServedExtension(response)]
           ELSE guess_type(encodings_map_default, PlatformTypes(platform),
                           ServedExtension(response))}
(***************************************************************************)
(* C8..C10: repetition, the missing entry document, startup                *)
(***************************************************************************)
\* the answer of a handler in a process that has handled nothing before
FreshResponse ==
    IF script = "serve.py"
    THEN handle_one_request("serve.py", request, files, files, denied,
                            encodings_map_default,
                            serve_add_types(PlatformTypes(platform)))
    ELSE handle_one_request("server.py", request, files, files, denied,
                            server_update_extensions_map(encodings_map_default),
                            PlatformTypes(platform))

\* C8: a request repeated with no change of the filesystem in between gets
\* the same status, headers and body as before, and the answer to a request
\* is the one a process that has handled nothing before would give: it
\* depends on the method, the path and the filesystem only.
C8_SameRequestSameResponse ==
    response.status # 0
    => /\ previous # NoResponse => response = previous
       /\ response = FreshResponse

\* GET /main.js was answered 200 twice in a row by the SPA router
C8_Witness ==
    /\ script = "server.py"
    /\ request.command = "GET" /\ request.path = p_main_js
    /\ previous # NoResponse
    /\ response.status = 200 /\ response = previous

\* the request is one the specification classifies as ServeEntryDocument by
\* its path: no static-asset suffix, and the normalized path is empty or
\* starts with a client-route prefix
EntryDocumentRoute ==
    /\ RequestExtension \notin SpecStaticExtensions
    /\ \/ SpecPath[request.path].normalizedPath = <<>>
       \/ \E route \in ClientRoutes :
              startswith(SpecPath[request.path].normalizedPath, route)

\* the log holds the line of a response with this status
LoggedStatus(x, code) ==
    \E i \in 1..Len(x.log) :
        /\ x.log[i].args[1] = requestline(request)
        /\ x.log[i].args[2] = str(code)

\* C9: with index.html absent from the Served Root, a GET to the SPA router
\* for /, /view..., /browser... or /catalog... is answered 404 with the
\* error page, and the 404 is logged.
C9_MissingEntryDocumentIsNotFound ==
    (RouterGET /\ EntryDocumentRoute /\ ~isfile(files, <<s_index_html>>))
    => /\ response.status = 404
       /\ wfile(response).kind = "error"
       /\ LoggedStatus(response, 404)

\* GET / was answered 404 while other files were there but index.html was not
C9_Witness ==
    /\ RouterGET /\ request.path = p_root
    /\ files = {<<f_main_js>>, <<s_view, f_mod_mjs>>}
    /\ response.status = 404
    /\ LoggedStatus(response, 404)

\* C10: when the bind fails because the port is in use, on either script the
\* process never serves, prints a message that names the port and suggests
\* port + 1, and exits with a non-zero status, whatever errno the platform
\* uses for address-in-use.
C10_BindFailureIsFatalAndReported ==
    (oserror # 0 /\ oserror = EADDRINUSE(platform))
    => /\ pc = "exited"
       /\ exit_code # 0
       /\ \E i \in 1..Len(stdout) : stdout[i] = Said("port is already in use", port)
       /\ \E i \in 1..Len(stdout) : stdout[i] = Said("try --port", port + 1)
(***************************************************************************)
(* C11..C13: a missing entry document at startup, read failures, listings  *)
(***************************************************************************)
\* run_server printed the warning about index.html
Warned ==
    \E i \in 1..Len(stdout) : stdout[i] = Said("warning: index.html not found", 0)

\* the SPA router starts in a Served Root without index.html and binds
StartsWithoutEntryDocument ==
    /\ script = "server.py" /\ pc = "main" /\ pc' # "main"
    /\ oserror' = 0
    /\ ~isfile(files, <<s_index_html>>)

\* the request names, by its undecoded path, an existing readable file with
\* a suffix of the code's static set
ExistingStaticFile ==
    /\ Stripped[request.path].suffix \in CodeStaticExtensions
    /\ isfile(files, Translated[request.path].parts)
    /\ ~Translated[request.path].trailing_slash
    /\ Translated[request.path].parts \notin denied

\* C11: when the SPA router starts in a Served Root without index.html and
\* the bind succeeds, run_server prints the warning and reaches the serving
\* state; and while index.html is missing an unconditional GET for an
\* existing static file is answered 200 with that file.
C11_MissingEntryDocumentIsAWarning ==
    /\ [][StartsWithoutEntryDocument => (pc' = "serving" /\ Warned')]_vars
    /\ [](( /\ RouterGET /\ ~request.ims
            /\ ~isfile(files, <<s_index_html>>)
            /\ ExistingStaticFile)
          => ( /\ response.status = 200
               /\ wfile(response) = FileBody(Translated[request.path].parts)))

\* after the warning the SPA router served main.js from a Served Root that
\* has no index.html
C11_Witness ==
    /\ script = "server.py" /\ pc = "serving" /\ Warned
    /\ ~isfile(files, <<s_index_html>>)
    /\ request.command = "GET" /\ request.path = p_main_js
    /\ response.status = 200 /\ wfile(response) = FileBody(<<f_main_js>>)
\* C12: when the router's existence check succeeds for a path with a static
\* suffix but the file cannot be opened when it is transferred, the client
\* receives a server error (5xx), not a 404 and not the entry document.
C12_ReadFailureIsServerError ==
    (/\ RouterGET
     /\ Stripped[request.path].suffix \in CodeStaticExtensions
     /\ file_exists(files, Routed[request.path].file_path)
     /\ Translated[request.path].parts \in denied)
    => (response.status >= 500 /\ response.status <= 599)
\* C13: every 200 response of the SPA router to a GET carries the content of
\* a file that exists under the Served Root; no request is answered with a
\* generated directory listing.
C13_NoGeneratedContent ==
    (RouterGET /\ response.status = 200)
    => (wfile(response).kind = "file" /\ isfile(files, wfile(response).of))
(***************************************************************************)
(* C14..C16: the routing invariants                                        *)
(***************************************************************************)
\* the condition under which the code replaces the path, on the undecoded
\* slash-stripped path of the request
RewriteCondition ==
    /\ Stripped[request.path].suffix \notin CodeStaticExtensions
    /\ \/ Stripped[request.path].path = <<>>
       \/ \E route \in ClientRoutes : startswith(Stripped[request.path].path, route)

\* the entry document was served for a path that does not name it
EntrySubstituted ==
    /\ RouterGET /\ IsEntryDocument(response)
    /\ SpecPath[request.path].parts \notin {<<>>, <<s_index_html>>}

\* a file was served from disk under the path of the request
ServedOwnPath ==
    /\ RouterGET /\ response.status = 200
    /\ wfile(response) = FileBody(SpecPath[request.path].parts)

\* C14 as stated: the entry document is substituted only when the extension
\* is empty or the normalized path starts with view, browser or catalog, and
\* a file is served under its own request path only when the extension is
\* one of the static-asset set.
C14_StaticOnlyForStaticExtensions ==
    /\ EntrySubstituted
       => \/ RequestExtension = <<>>
          \/ \E route \in ClientRoutes :
                 startswith(SpecPath[request.path].normalizedPath, route)
    /\ ServedOwnPath => RequestExtension \in SpecStaticExtensions

\* C14 amended: the entry document is substituted only when the undecoded
\* slash-stripped path has no suffix of the code's static set and is empty
\* or starts with view, browser or catalog, and a file is served under its
\* own request path only when that condition fails, whatever its extension.
C14_StaticUnlessRewritten ==
    /\ EntrySubstituted => RewriteCondition
    /\ ServedOwnPath => ~RewriteCondition

\* the extensionless docs/about was served from disk under its own path
C14_Witness ==
    /\ ServedOwnPath /\ request.path = p_docs_about
    /\ RequestExtension = <<>> /\ ~RewriteCondition

\* the files left when the entry a path names, and all below it, are gone
WithoutEntry(fs, parts) ==
    {f \in fs : ~(Len(f) >= Len(parts) /\ SubSeq(f, 1, Len(parts)) = parts)}

\* the answer of the SPA router to the request over another filesystem
RouterResponse(fs) ==
    handle_one_request("server.py", request, fs, fs, denied \cap fs,
                       server_update_extensions_map(encodings_map_default),
                       PlatformTypes(platform))

\* the request is a GET to the SPA router for an extensionless path other
\* than the root
ExtensionlessGET ==
    /\ RouterGET
    /\ RequestExtension = <<>>
    /\ SpecPath[request.path].parts # <<>>

\* C15 as stated: the response to a GET for an extensionless path is the same
\* whether or not a file or directory of that name exists.
C15_ExistenceNeverMatters ==
    ExtensionlessGET
    => response = RouterResponse(WithoutEntry(files, SpecPath[request.path].parts))

\* C15 amended: the response to a GET for an extensionless path that starts
\* with view, browser or catalog is the same whether or not a file or
\* directory of that name exists.
C15_ExistenceNeverMattersForRoutes ==
    (ExtensionlessGET /\ RewriteCondition)
    => response = RouterResponse(WithoutEntry(files, SpecPath[request.path].parts))

\* GET /view was answered with the entry document although view is a
\* directory of the Served Root
C15_Witness ==
    /\ ExtensionlessGET /\ request.path = p_view
    /\ isdir(files, <<s_view>>)
    /\ IsEntryDocument(response)
\* the request target that spells the decoded path of p
Decoded(p) ==
    <<"/">> \o SpecPath[p].normalizedPath

\* the answer of the SPA router to request r, without its log lines
RouterAnswer(r) ==
    [handle_one_request("server.py", r, files, files, denied,
                        server_update_extensions_map(encodings_map_default),
                        PlatformTypes(platform))
     EXCEPT !.log = <<>>]

\* C16: the SPA router classifies the percent-decoded path: a request gets
\* the response of the request that spells its decoded path (/%76iew/x that
\* of /view/x, /main%2Ejs that of /main.js), and a request for the empty
\* path gets the response of a request for the entry document.
C16_DecodedPathDecides ==
    RouterGET
    => /\ [response EXCEPT !.log = <<>>]
             = RouterAnswer([request EXCEPT !.path = Decoded(request.path)])
       /\ request.path = p_root
             => [response EXCEPT !.log = <<>>]
                   = RouterAnswer([request EXCEPT !.path = s_slash_index_html])
(***************************************************************************)
(* C17..C19: the log, the Served Root, the rewrite                         *)
(***************************************************************************)
\* the category of an extension in the access log
LogCategory(ext) ==
    IF ext = ext_js THEN "[JS]"
    ELSE IF ext = ext_css THEN "[CSS]"
    ELSE IF ext \in {ext_png, ext_jpg, ext_svg} THEN "[IMG]"
    ELSE "[HTML]"

\* the access-log lines of an exchange: those that show the request line
AccessLines(x) ==
    {i \in 1..Len(x.log) : x.log[i].args[1] = requestline(request)}

\* C17: every access-log line serve.py prints for a request is tagged with
\* the category of the extension of the requested path: [JS] for .js, [CSS]
\* for .css, [IMG] for .png, .jpg and .svg, [HTML] otherwise.
C17_LogTagFollowsExtension ==
    (script = "serve.py" /\ response.status # 0)
    => /\ AccessLines(response) # {}
       /\ \A i \in AccessLines(response) :
              response.log[i].tag = LogCategory(RequestExtension)
\* a handler runs: the request in flight gets its response
HandlerStep ==
    response = NoResponse /\ response' # NoResponse

\* once serving, the working directory is the Served Root, and the router's
\* existence check and the stock handler both resolve paths against it
RootIsFixed ==
    pc = "serving"
    => /\ cwd = ServedRoot
       /\ router_directory(cwd) = ServedRoot
       /\ handler_directory(cwd) = ServedRoot

\* C18 as stated: the Served Root is set at startup and never changes, the
\* existence check and the file reads use that directory, and no handler
\* writes to the filesystem or to any state shared between requests.
C18_HandlersWriteNothingShared ==
    /\ []RootIsFixed
    /\ [][pc = "serving" => cwd' = cwd]_vars
    /\ [][HandlerStep => UNCHANGED <<cwd, files, denied, extensions_map, mimedb>>]_vars

\* the type tables every handler installs
InstalledTables ==
    /\ script = "server.py"
       => /\ extensions_map = server_update_extensions_map(encodings_map_default)
          /\ mimedb = PlatformTypes(platform)
    /\ script = "serve.py"
       => /\ extensions_map = encodings_map_default
          /\ mimedb = serve_add_types(PlatformTypes(platform))

\* C18 amended: the Served Root is set at startup and never changes, the
\* existence check and the file reads use that directory, and no handler
\* writes to the filesystem; the one shared state a handler writes is the
\* type table, which every handler leaves with the same fixed entries.
C18_HandlersWriteOnlyTheTypeTable ==
    /\ []RootIsFixed
    /\ [][pc = "serving" => cwd' = cwd]_vars
    /\ [][HandlerStep => (UNCHANGED <<cwd, files, denied>> /\ InstalledTables')]_vars

\* started with --directory www, the SPA router answered a rewritten
\* request from that directory and left the updated type table behind
C18_Witness ==
    /\ script = "server.py" /\ directory = "www" /\ cwd = "www"
    /\ request.path = p_view_search /\ IsEntryDocument(response)
    /\ extensions_map # encodings_map_default
    /\ InstalledTables
\* the value do_GET gives self.path before it delegates
ExpectedPath ==
    IF RewriteCondition THEN s_slash_index_html ELSE request.path

\* the response of the stock do_GET of class cls for self.path = path
StockGET(cls, path) ==
    simple_do_GET(cls, request, path, files, denied,
                  server_update_extensions_map(encodings_map_default),
                  PlatformTypes(platform), NoResponse)

\* the three CORS headers as end_headers of server.py appends them
CORSHeaders ==
    << <<"Access-Control-Allow-Origin", "*">>,
       <<"Access-Control-Allow-Methods", "GET, POST, OPTIONS">>,
       <<"Access-Control-Allow-Headers", "Content-Type">> >>

====
